---- MODULE Spec2Model ----
(***************************************************************************)
(* A model of momento-cli's cloud linter (the ElastiCache collector, the   *)
(* orchestrating run and the report writer) and of the profile editor of   *)
(* utils/ini_config.rs.                                                    *)
(*                                                                         *)
(* Strings the code takes apart (ids, lines of a file) are sequences of    *)
(* one-character strings; strings the code only compares whole (engine     *)
(* names, dimension keys) are TLA+ strings.  An Option<T> is a sequence of *)
(* length 0 (None) or 1 (Some); a Result<T, CliError> is a record          *)
(* [ok, val, msg].                                                         *)
(***************************************************************************)
EXTENDS Integers, Sequences, FiniteSets, TLC

VARIABLES
    \* ---- classification of one cluster descriptor (write_resources, first loop)
    cluster,        \* the cluster descriptor handed to the loop body
    built,          \* Option<Result<Vec<Resource>>>: what the loop body made of it
    targets,        \* Option<Vec<Result<Vec<MetricTarget>>>>: create_metric_targets of each
    \* ---- one run of run_cloud_linter
    pc,             \* position of the run
    failure,        \* the step that failed ("" while none has)
    metrics_limiter, \* the limiter instance bound to write_resources' metrics_limiter
    acquires,       \* permits granted so far, by limiter instance
    issued,         \* API requests issued under a permit, by the limiter that gave it
    listCalls,      \* listing API requests issued so far
    metricCalls,    \* metrics API requests issued so far
    ddbServed,      \* pages the table listing API has returned
    ddb_resources,  \* Vec<Resource> of get_ddb_resources
    served,         \* pages the cluster listing API has returned
    elasticache_clusters, \* describe_clusters' accumulator
    stage,          \* whose resources are being enriched: "elasticache" | "ddb"
    pending,        \* resources not yet enriched
    inHand,         \* Option<Resource>: enriched, about to be sent
    sent,           \* resources sent into the channel, in order
    channel,        \* the bounded channel's queue
    receiverAlive,  \* FALSE once the receiver was dropped
    received,       \* the consumer's accumulated list
    fileState,      \* "untouched" | "created" | "partial" | "complete"
    fileContent,    \* the resource list the complete file holds
    \* ---- the profile editor
    file_contents,  \* the lines handed to update_*_profile
    profile_name,   \* the profile to update
    updated,        \* Option<Vec<String>>: the returned lines
    op              \* which update returned them: "credentials" | "config"

classifyVars == <<cluster, built, targets>>
runVars == <<pc, failure, metrics_limiter, acquires, issued, listCalls, metricCalls,
             ddbServed, ddb_resources,
             served, elasticache_clusters, stage, pending, inHand, sent,
             channel, receiverAlive, received, fileState, fileContent>>
iniVars == <<file_contents, profile_name, updated, op>>
vars == <<classifyVars, runVars, iniVars>>

(***************************************************************************)
(* Bounds of the model.                                                    *)
(***************************************************************************)
MaxIdLen == 5
MaxRgLen == 2
MaxNodes == 3
MaxPages == 2
MaxPageLen == 2
MaxDdbPages == 2
ChannelCap == 2
MaxFileLen == 5

(***************************************************************************)
(* Option, Result and sequence helpers.                                    *)
(***************************************************************************)
None == <<>>
Some(x) == <<x>>
IsSome(o) == Len(o) = 1
Unwrap(o) == o[1]

Ok(v) == [ok |-> TRUE, val |-> v, msg |-> ""]
Err(m) == [ok |-> FALSE, val |-> <<>>, msg |-> m]

SeqsUpTo(S, n) == UNION {[1..k -> S] : k \in 0..n}
NonEmptySeqsUpTo(S, n) == UNION {[1..k -> S] : k \in 1..n}

RECURSIVE Flatten(_)
Flatten(ss) == IF ss = <<>> THEN <<>> ELSE Head(ss) \o Flatten(Tail(ss))

(***************************************************************************)
(* str::trim_start_matches(pat): the pattern is removed from the start of  *)
(* the string repeatedly, for as long as the string starts with it.        *)
(***************************************************************************)
StartsWith(s, pat) == Len(s) >= Len(pat) /\ SubSeq(s, 1, Len(pat)) = pat

RECURSIVE trim_start_matches(_, _)
trim_start_matches(s, pat) ==
    IF Len(pat) > 0 /\ StartsWith(s, pat)
    THEN trim_start_matches(SubSeq(s, Len(pat) + 1, Len(s)), pat)
    ELSE s

\* str::strip_prefix: the pattern removed once, when the string starts with it.
StripPrefixOnce(s, pat) ==
    IF StartsWith(s, pat) THEN SubSeq(s, Len(pat) + 1, Len(s)) ELSE s

\* str::split(ch).count(): one segment more than there are separators ("" has one).
split_count(s, ch) == 1 + Cardinality({i \in 1..Len(s) : s[i] = ch})

(***************************************************************************)
(* elasticache.rs: CACHE_METRICS and create_metric_targets.                *)
(***************************************************************************)
CACHE_METRICS ==
    [Sum |-> <<"NetworkBytesIn", "NetworkBytesOut", "GeoSpatialBasedCmds",
               "EvalBasedCmds", "GetTypeCmds", "HashBasedCmds", "JsonBasedCmds",
               "KeyBasedCmds", "ListBasedCmds", "SetBasedCmds", "SetTypeCmds",
               "StringBasedCmds", "PubSubBasedCmds", "SortedSetBasedCmds",
               "StreamBasedCmds">>,
     Average |-> <<"DB0AverageTTL">>,
     Maximum |-> <<"CurrConnections", "NewConnections", "EngineCPUUtilization",
                   "CPUUtilization", "FreeableMemory", "BytesUsedForCache",
                   "DatabaseMemoryUsagePercentage", "CurrItems", "KeysTracked",
                   "Evictions", "CacheHitRate">>]

NodeId0001 == <<"0", "0", "0", "1">>

\* Mutation for C6: the redis dimension taken from the metadata's cluster id.
create_metric_targets_MetadataId(self) ==
    CASE self.resource_type = "ElastiCacheRedisNode" ->
            Ok(<<[namespace |-> "AWS/ElastiCache", expression |-> "",
                  dimensions |-> ("CacheClusterId" :> self.metadata.cluster_id)
                                 @@ ("CacheNodeId" :> NodeId0001),
                  targets |-> CACHE_METRICS]>>)
      [] self.resource_type = "ElastiCacheMemcachedNode" ->
            Ok(<<[namespace |-> "AWS/ElastiCache", expression |-> "",
                  dimensions |-> ("CacheClusterId" :> self.metadata.cluster_id)
                                 @@ ("CacheNodeId" :> self.id),
                  targets |-> CACHE_METRICS]>>)
      [] OTHER -> Err("Invalid resource type")

create_metric_targets(self) ==
    CASE self.resource_type = "ElastiCacheRedisNode" ->
            Ok(<<[namespace |-> "AWS/ElastiCache", expression |-> "",
                  dimensions |-> ("CacheClusterId" :> self.id)
                                 @@ ("CacheNodeId" :> NodeId0001),
                  targets |-> CACHE_METRICS]>>)
      [] self.resource_type = "ElastiCacheMemcachedNode" ->
            Ok(<<[namespace |-> "AWS/ElastiCache", expression |-> "",
                  dimensions |-> ("CacheClusterId" :> self.metadata.cluster_id)
                                 @@ ("CacheNodeId" :> self.id),
                  targets |-> CACHE_METRICS]>>)
      [] OTHER -> Err("Invalid resource type")

(***************************************************************************)
(* elasticache.rs, write_resources, first loop: one cluster descriptor to  *)
(* its resources.                                                          *)
(***************************************************************************)
Dash == "-"

\* Mutation for C5: the trimmed id returned as the cluster id.
RedisClusterIdAndMode_Trimmed(cache_cluster_id, replication_group_id) ==
    IF IsSome(replication_group_id)
    THEN LET trimmed_cluster_id ==
                 trim_start_matches(cache_cluster_id,
                                    Unwrap(replication_group_id) \o <<Dash>>)
             parts_len == split_count(trimmed_cluster_id, Dash)
         IN  <<trimmed_cluster_id, parts_len = 2>>
    ELSE <<cache_cluster_id, FALSE>>

\* Lines 183-192: (cluster_id, cluster_mode_enabled) of a redis cluster.
RedisClusterIdAndMode(cache_cluster_id, replication_group_id) ==
    IF IsSome(replication_group_id)
    THEN LET trimmed_cluster_id ==
                 trim_start_matches(cache_cluster_id,
                                    Unwrap(replication_group_id) \o <<Dash>>)
             parts_len == split_count(trimmed_cluster_id, Dash)
         IN  <<Unwrap(replication_group_id), parts_len = 2>>
    ELSE <<cache_cluster_id, FALSE>>

ElastiCacheMetadata(cluster_id, engine, cache_node_type, preferred_az, mode) ==
    [cluster_id |-> cluster_id, engine |-> engine, cache_node_type |-> cache_node_type,
     preferred_az |-> preferred_az, cluster_mode_enabled |-> mode]

ElastiCacheResource(resource_type, region, id, metadata) ==
    [resource_type |-> resource_type, region |-> region, id |-> id,
     metrics |-> <<>>, metric_period_seconds |-> 0, metadata |-> metadata]

\* Mutation for C7: each node's resource pushed in front of the list (reversed).
RECURSIVE MemcachedNodeResources_Reversed(_, _, _)
MemcachedNodeResources_Reversed(cache_nodes, region, metadata) ==
    IF cache_nodes = <<>> THEN Ok(<<>>)
    ELSE LET node == Head(cache_nodes) IN
         IF ~IsSome(node.cache_node_id) THEN Err("Cache node has no ID")
         ELSE LET rest == MemcachedNodeResources_Reversed(Tail(cache_nodes), region,
                                                          metadata) IN
              IF ~rest.ok THEN rest
              ELSE Ok(rest.val \o
                      <<ElastiCacheResource("ElastiCacheMemcachedNode", region,
                                            Unwrap(node.cache_node_id), metadata)>>)

\* Lines 223-236: the resources of a memcached cluster's nodes, in node order; the
\* first node without an id fails the whole collector.
RECURSIVE MemcachedNodeResources(_, _, _)
MemcachedNodeResources(cache_nodes, region, metadata) ==
    IF cache_nodes = <<>> THEN Ok(<<>>)
    ELSE LET node == Head(cache_nodes) IN
         IF ~IsSome(node.cache_node_id) THEN Err("Cache node has no ID")
         ELSE LET rest == MemcachedNodeResources(Tail(cache_nodes), region, metadata) IN
              IF ~rest.ok THEN rest
              ELSE Ok(<<ElastiCacheResource("ElastiCacheMemcachedNode", region,
                                            Unwrap(node.cache_node_id), metadata)>>
                      \o rest.val)

\* Lines 168-244: the loop body.
ClusterResources(c, region) ==
    IF ~IsSome(c.cache_cluster_id) THEN Err("ElastiCache cluster has no ID")
    ELSE IF ~IsSome(c.cache_node_type) THEN Err("ElastiCache cluster has no node type")
    ELSE IF ~IsSome(c.preferred_availability_zone)
         THEN Err("ElastiCache cluster has no preferred availability zone")
    ELSE IF ~IsSome(c.engine) THEN Err("ElastiCache cluster has no engine type")
    ELSE LET cache_cluster_id == Unwrap(c.cache_cluster_id)
             cache_node_type == Unwrap(c.cache_node_type)
             preferred_az == Unwrap(c.preferred_availability_zone)
             engine == Unwrap(c.engine)
         IN  CASE engine = "redis" ->
                    LET im == RedisClusterIdAndMode(cache_cluster_id,
                                                    c.replication_group_id)
                    IN  Ok(<<ElastiCacheResource("ElastiCacheRedisNode", region,
                               cache_cluster_id,
                               ElastiCacheMetadata(im[1], engine, cache_node_type,
                                                   preferred_az, im[2]))>>)
               [] engine = "memcached" ->
                    IF IsSome(c.cache_nodes)
                    THEN MemcachedNodeResources(Unwrap(c.cache_nodes), region,
                             ElastiCacheMetadata(cache_cluster_id, engine,
                                                 cache_node_type, preferred_az, FALSE))
                    ELSE Ok(<<>>)
               [] OTHER -> Err("Unsupported engine")

\* Mutation for C3: a cluster of an unsupported engine is skipped.
RECURSIVE CollectResources_SkipUnsupported(_, _)
CollectResources_SkipUnsupported(clusters, region) ==
    IF clusters = <<>> THEN Ok(<<>>)
    ELSE LET first == ClusterResources(Head(clusters), region)
             rest == CollectResources_SkipUnsupported(Tail(clusters), region)
         IN  IF ~first.ok /\ first.msg = "Unsupported engine" THEN rest
             ELSE IF ~first.ok THEN first
             ELSE IF ~rest.ok THEN rest
             ELSE Ok(first.val \o rest.val)

\* Lines 165-245: the first loop of write_resources; the first cluster that fails
\* returns its error from write_resources, and the resources pushed so far are dropped.
RECURSIVE CollectResources(_, _)
CollectResources(clusters, region) ==
    IF clusters = <<>> THEN Ok(<<>>)
    ELSE LET first == ClusterResources(Head(clusters), region) IN
         IF ~first.ok THEN first
         ELSE LET rest == CollectResources(Tail(clusters), region) IN
              IF ~rest.ok THEN rest
              ELSE Ok(first.val \o rest.val)

(***************************************************************************)
(* Classification of one cluster descriptor, over bounded descriptors.     *)
(***************************************************************************)
Region == "us-east-1"
IdChars == {"a", "-"}
Ids == SeqsUpTo(IdChars, MaxIdLen)
ReplicationGroupIds == NonEmptySeqsUpTo(IdChars, MaxRgLen)
NodeType == <<"t", "3">>
Az == <<"a", "z">>
CacheNodes == {[cache_node_id |-> Some(<<"1">>)], [cache_node_id |-> Some(<<"2">>)],
               [cache_node_id |-> None]}

CacheCluster(id, node_type, az, engine, rg, nodes) ==
    [cache_cluster_id |-> id, cache_node_type |-> node_type,
     preferred_availability_zone |-> az, engine |-> engine,
     replication_group_id |-> rg, cache_nodes |-> nodes]

RedisDescriptors ==
    {CacheCluster(Some(id), Some(NodeType), Some(Az), Some("redis"), rg, None) :
        id \in Ids, rg \in {None} \cup {Some(g) : g \in ReplicationGroupIds}}

OtherDescriptors ==
    {CacheCluster(id, Some(NodeType), az, engine, rg, nodes) :
        id \in {None, Some(<<"a">>), Some(<<"a", "-", "a">>)},
        az \in {None, Some(Az)},
        engine \in {None, Some("memcached"), Some("valkey")},
        rg \in {None, Some(<<"a">>)},
        nodes \in {None} \cup {Some(ns) : ns \in SeqsUpTo(CacheNodes, MaxNodes)}}

InitClassify ==
    /\ cluster \in RedisDescriptors \cup OtherDescriptors
    /\ built = None
    /\ targets = None

IdleClassify ==
    /\ cluster = CacheCluster(None, None, None, None, None, None)
    /\ built = None
    /\ targets = None

\* The loop body of write_resources applied to the descriptor.
Classify ==
    /\ built = None
    /\ built' = Some(ClusterResources(cluster, Region))
    /\ UNCHANGED <<cluster, targets, runVars, iniVars>>

\* create_metric_targets applied to every resource the descriptor gave.
CreateTargets ==
    /\ IsSome(built) /\ Unwrap(built).ok
    /\ targets = None
    /\ targets' = Some([i \in 1..Len(Unwrap(built).val) |->
                            create_metric_targets(Unwrap(built).val[i])])
    /\ UNCHANGED <<cluster, built, runVars, iniVars>>

(***************************************************************************)
(* One run of run_cloud_linter.  The listing and metrics APIs, the file    *)
(* system and the consumer of the channel are the environment: what they   *)
(* answer is chosen at the step that asks.                                 *)
(***************************************************************************)
Last(q) == q[Len(q)]

\* The cluster descriptors the listing API serves in a run.
RedisCluster ==
    CacheCluster(Some(<<"g", "-", "1", "-", "1">>), Some(NodeType), Some(Az),
                 Some("redis"), Some(<<"g">>), None)
MemcachedCluster ==
    CacheCluster(Some(<<"m">>), Some(NodeType), Some(Az), Some("memcached"), None,
                 Some(<<[cache_node_id |-> Some(<<"1">>)],
                        [cache_node_id |-> Some(<<"2">>)]>>))
UnsupportedCluster ==
    CacheCluster(Some(<<"v">>), Some(NodeType), Some(Az), Some("valkey"), None, None)
NoEngineCluster ==
    CacheCluster(Some(<<"n">>), Some(NodeType), Some(Az), None, None, None)
NoNodeIdCluster ==
    CacheCluster(Some(<<"b">>), Some(NodeType), Some(Az), Some("memcached"), None,
                 Some(<<[cache_node_id |-> Some(<<"1">>)], [cache_node_id |-> None]>>))
ServedClusters ==
    {RedisCluster, MemcachedCluster, UnsupportedCluster, NoEngineCluster, NoNodeIdCluster}

\* A page of DescribeCacheClusters: its cluster list (absent or present) and whether
\* a marker for a further page came with it.  A cluster id is unique in its region:
\* the API lists no cluster twice.
NoRepeat(cs) == \A i, j \in 1..Len(cs) : cs[i] = cs[j] => i = j
ClusterPages(seen, more) ==
    [cache_clusters : {None} \cup
         {Some(cs) : cs \in {l \in SeqsUpTo(ServedClusters, MaxPageLen) :
                                NoRepeat(seen \o l)}},
     marker : more]

\* Mutation for C1: the page's clusters replace the accumulator.
ExtendClusters_Replace(acc, page) ==
    IF IsSome(page.cache_clusters) THEN Unwrap(page.cache_clusters) ELSE acc

\* Lines 141-143: a page's clusters, when it carries a list, extend the accumulator.
ExtendClusters(acc, page) ==
    IF IsSome(page.cache_clusters) THEN acc \o Unwrap(page.cache_clusters) ELSE acc

\* The paginator issues a request for the first page and after every page that came
\* with a marker; otherwise the stream has ended.
StreamHasNext(pages) == pages = <<>> \/ Last(pages).marker

(***************************************************************************)
(* The rate limiters.  run_cloud_linter makes one (linter_cli.rs lines     *)
(* 29-31) and hands it to the table listing (line 33), to the cluster      *)
(* listing (line 36) and to the enrichment of line 39.                     *)
(* process_elasticache_resources takes a second parameter, metrics_limiter *)
(* (elasticache.rs line 111), which the call of line 36 does not name:     *)
(* its caller binds it to the run's limiter or to an instance of its own.  *)
(***************************************************************************)
limiter == "limiter"
LimiterInstances == {limiter, "metrics_limiter"}
control_plane_limiter == limiter

\* utils::rate_limit(limiter, f): a permit of the limiter is awaited, then f is run.
rate_limit(permits, instance) == [permits EXCEPT ![instance] = @ + 1]

\* Mutation for C11: a permit is awaited for the first poll of a limiter only.
describe_clusters_rate_limit_Once(permits, instance) ==
    IF permits[instance] = 0 THEN rate_limit(permits, instance) ELSE permits

\* elasticache.rs line 138: every turn of the loop polls the stream under rate_limit.
describe_clusters_rate_limit(permits, instance) == rate_limit(permits, instance)

InitRun ==
    /\ pc = "check"
    /\ failure = ""
    /\ metrics_limiter \in LimiterInstances
    /\ acquires = [l \in LimiterInstances |-> 0]
    /\ issued = [l \in LimiterInstances |-> 0]
    /\ listCalls = 0 /\ metricCalls = 0
    /\ ddbServed = <<>> /\ ddb_resources = <<>>
    /\ served = <<>> /\ elasticache_clusters = <<>>
    /\ stage = "elasticache"
    /\ pending = <<>> /\ inHand = None /\ sent = <<>>
    /\ channel = <<>> /\ receiverAlive = TRUE
    /\ received = <<>>
    /\ fileState = "untouched" /\ fileContent = <<>>

\* Mutation for C8: the check's error is dropped and the run goes on.
check_output_is_writable_Ignored ==
    /\ pc = "check"
    /\ \E dir_metadata \in {"error", "readonly", "writable"} :
          IF dir_metadata = "writable"
          THEN pc' = "ddb" /\ failure' = failure
          ELSE pc' = "ddb" /\ failure' = "check_output_is_writable"
    /\ UNCHANGED <<acquires, issued, listCalls, metricCalls, ddbServed, ddb_resources, served,
                   elasticache_clusters, stage, pending, inHand, sent,
                   channel, receiverAlive, received, fileState,
                   fileContent, metrics_limiter, classifyVars, iniVars>>

\* Lines 27 and 67-83: the parent directory's metadata is the file system's answer.
check_output_is_writable ==
    /\ pc = "check"
    /\ \E dir_metadata \in {"error", "readonly", "writable"} :
          IF dir_metadata = "writable"
          THEN pc' = "ddb" /\ failure' = failure
          ELSE pc' = "error" /\ failure' = "check_output_is_writable"
    /\ UNCHANGED <<acquires, issued, listCalls, metricCalls, ddbServed, ddb_resources, served,
                   elasticache_clusters, stage, pending, inHand, sent,
                   channel, receiverAlive, received, fileState,
                   fileContent, metrics_limiter, classifyVars, iniVars>>

\* Line 33, get_ddb_resources: one rate-limited step of the table listing.
DdbTable(name) ==
    [resource_type |-> "DynamoDbTable", region |-> Region, id |-> name,
     metrics |-> <<>>, metric_period_seconds |-> 0,
     metadata |-> [table_name |-> name]]
\* A page of the table listing: no table or one, named after the page's number.
Digit(n) == <<"0", "1", "2", "3", "4", "5", "6", "7", "8", "9">>[n + 1]
DdbPages(n, more) == [tables : SeqsUpTo({<<"t", Digit(n)>>}, 1), marker : more]

get_ddb_resources ==
    /\ pc = "ddb"
    /\ acquires' = rate_limit(acquires, limiter)
    /\ IF StreamHasNext(ddbServed)
       THEN /\ listCalls' = listCalls + 1
            /\ issued' = [issued EXCEPT ![limiter] = @ + 1]
            /\ \/ /\ pc' = "error" /\ failure' = "get_ddb_resources"
                  /\ UNCHANGED <<ddbServed, ddb_resources>>
               \/ \E page \in DdbPages(Len(ddbServed) + 1,
                                    {m \in BOOLEAN : m => Len(ddbServed) + 1 < MaxDdbPages}) :
                     /\ ddbServed' = Append(ddbServed, page)
                     /\ ddb_resources' = ddb_resources \o
                            [i \in 1..Len(page.tables) |-> DdbTable(page.tables[i])]
                     /\ UNCHANGED <<pc, failure>>
       ELSE /\ pc' = "describe"
            /\ UNCHANGED <<listCalls, issued, failure, ddbServed, ddb_resources>>
    /\ UNCHANGED <<metricCalls, served, elasticache_clusters, stage, pending,
                   inHand, sent, channel, receiverAlive, received,
                   fileState, fileContent, metrics_limiter, classifyVars, iniVars>>

\* Mutation for C12: the stream is polled once (if let for while let), and the
\* clusters of its first page go on to write_resources.
describe_clusters_FirstPageOnly ==
    /\ pc = "describe"
    /\ acquires' = describe_clusters_rate_limit(acquires, control_plane_limiter)
    /\ listCalls' = listCalls + 1
    /\ issued' = [issued EXCEPT ![control_plane_limiter] = @ + 1]
    /\ \/ /\ pc' = "error" /\ failure' = "describe_clusters"
          /\ UNCHANGED <<served, elasticache_clusters>>
       \/ \E page \in ClusterPages(elasticache_clusters, BOOLEAN) :
             /\ served' = Append(served, page)
             /\ elasticache_clusters' = ExtendClusters(elasticache_clusters, page)
             /\ pc' = "collect"
             /\ UNCHANGED failure
    /\ UNCHANGED <<metricCalls, ddbServed, ddb_resources, stage, pending,
                   inHand, sent, channel, receiverAlive, received,
                   fileState, fileContent, metrics_limiter, classifyVars, iniVars>>

\* Lines 138-151: one turn of describe_clusters' loop: acquire, then the stream's next.
describe_clusters ==
    /\ pc = "describe"
    /\ acquires' = describe_clusters_rate_limit(acquires, control_plane_limiter)
    /\ IF StreamHasNext(served)
       THEN /\ listCalls' = listCalls + 1
            /\ issued' = [issued EXCEPT ![control_plane_limiter] = @ + 1]
            /\ \/ /\ pc' = "error" /\ failure' = "describe_clusters"
                  /\ UNCHANGED <<served, elasticache_clusters>>
               \/ \E page \in ClusterPages(elasticache_clusters,
                                        {m \in BOOLEAN : m => Len(served) + 1 < MaxPages}) :
                     /\ served' = Append(served, page)
                     /\ elasticache_clusters' = ExtendClusters(elasticache_clusters, page)
                     /\ UNCHANGED <<pc, failure>>
       ELSE /\ pc' = "collect"
            /\ UNCHANGED <<listCalls, issued, failure, served, elasticache_clusters>>
    /\ UNCHANGED <<metricCalls, ddbServed, ddb_resources, stage, pending,
                   inHand, sent, channel, receiverAlive, received,
                   fileState, fileContent, metrics_limiter, classifyVars, iniVars>>

\* Lines 165-245: write_resources' first loop over all the clusters.
write_resources_collect ==
    /\ pc = "collect"
    /\ LET resources == CollectResources(elasticache_clusters, Region) IN
       IF resources.ok
       THEN /\ pending' = resources.val
            /\ pc' = "enrich"
            /\ UNCHANGED failure
       ELSE /\ pc' = "error" /\ failure' = resources.msg
            /\ UNCHANGED pending
    /\ UNCHANGED <<acquires, issued, listCalls, metricCalls, ddbServed, ddb_resources, served,
                   elasticache_clusters, stage, inHand, sent, channel, receiverAlive,
                   received, fileState, fileContent, metrics_limiter, classifyVars, iniVars>>

(***************************************************************************)
(* Enrichment: append_metrics of the ResourceWithMetrics trait, then the   *)
(* send of write_resources' second loop.                                   *)
(***************************************************************************)
StatisticGroups == <<"Sum", "Average", "Maximum">>
MetricPeriodSeconds == 60
ReturnedMetrics == [i \in 1..Len(StatisticGroups) |-> [statistic |-> StatisticGroups[i]]]

DdbMetricTargets(self) ==
    Ok(<<[namespace |-> "AWS/DynamoDB", expression |-> "",
          dimensions |-> ("TableName" :> self.id), targets |-> CACHE_METRICS]>>)

MetricTargetsOf(self) ==
    IF self.resource_type = "DynamoDbTable" THEN DdbMetricTargets(self)
    ELSE create_metric_targets(self)

\* Lines 99-105.
set_metrics(self, metrics) == [self EXCEPT !.metrics = metrics]
set_metric_period_seconds(self, period) == [self EXCEPT !.metric_period_seconds = period]

Enriched(self) ==
    set_metric_period_seconds(set_metrics(self, ReturnedMetrics), MetricPeriodSeconds)

\* The limiter handed to append_metrics: write_resources' metrics_limiter for its
\* own resources (elasticache.rs lines 121 and 250), the run's limiter for the
\* resources enriched at linter_cli.rs line 39.
EnrichmentLimiter == IF stage = "elasticache" THEN metrics_limiter ELSE limiter

\* Lines 250-251: the metric targets of the resource, one rate-limited query per
\* statistic group of each target, and the resource's metrics set when all answered.
append_metrics ==
    /\ pc = "enrich" /\ pending # <<>>
    /\ LET er == Head(pending)
           metric_targets == MetricTargetsOf(er)
           queries == IF metric_targets.ok
                      THEN Len(metric_targets.val) * Len(StatisticGroups) ELSE 0
           gate == EnrichmentLimiter
       IN  IF ~metric_targets.ok
           THEN /\ pc' = "error" /\ failure' = metric_targets.msg
                /\ UNCHANGED <<acquires, issued, metricCalls, inHand>>
           ELSE \/ \E failing \in 1..queries :
                      /\ acquires' = [acquires EXCEPT ![gate] = @ + failing]
                      /\ issued' = [issued EXCEPT ![gate] = @ + failing]
                      /\ metricCalls' = metricCalls + failing
                      /\ pc' = "error" /\ failure' = "append_metrics"
                      /\ UNCHANGED inHand
                \/ /\ acquires' = [acquires EXCEPT ![gate] = @ + queries]
                   /\ issued' = [issued EXCEPT ![gate] = @ + queries]
                   /\ metricCalls' = metricCalls + queries
                   /\ inHand' = Some(Enriched(er))
                   /\ pc' = "send"
                   /\ UNCHANGED failure
    /\ UNCHANGED <<listCalls, ddbServed, ddb_resources, served, elasticache_clusters,
                   stage, pending, sent, channel, receiverAlive, received, fileState,
                   fileContent, metrics_limiter, classifyVars, iniVars>>

\* Mutation for C9: the resource put at the front of the channel's queue.
ChannelPush_Front(queue, resource) == <<resource>> \o queue

\* The channel is a queue: a sent resource goes to its back.
ChannelPush(queue, resource) == Append(queue, resource)

\* Mutation for C13: the resource is sent as discovery built it, without the metrics.
send_Unenriched ==
    /\ pc = "send"
    /\ IF ~receiverAlive
       THEN /\ pc' = "error" /\ failure' = "Failed to send elasticache resource"
            /\ UNCHANGED <<pending, inHand, sent, channel>>
       ELSE /\ Len(channel) < ChannelCap
            /\ channel' = ChannelPush(channel, Head(pending))
            /\ sent' = Append(sent, Head(pending))
            /\ pending' = Tail(pending)
            /\ inHand' = None
            /\ pc' = "enrich"
            /\ UNCHANGED failure
    /\ UNCHANGED <<acquires, issued, listCalls, metricCalls, ddbServed, ddb_resources, served,
                   elasticache_clusters, stage, receiverAlive, received, fileState,
                   fileContent, metrics_limiter, classifyVars, iniVars>>

\* Lines 252-257: the send suspends while the channel is full and fails once the
\* receiver was dropped.
send ==
    /\ pc = "send"
    /\ IF ~receiverAlive
       THEN /\ pc' = "error" /\ failure' = "Failed to send elasticache resource"
            /\ UNCHANGED <<pending, inHand, sent, channel>>
       ELSE /\ Len(channel) < ChannelCap
            /\ channel' = ChannelPush(channel, Unwrap(inHand))
            /\ sent' = Append(sent, Unwrap(inHand))
            /\ pending' = Tail(pending)
            /\ inHand' = None
            /\ pc' = "enrich"
            /\ UNCHANGED failure
    /\ UNCHANGED <<acquires, issued, listCalls, metricCalls, ddbServed, ddb_resources, served,
                   elasticache_clusters, stage, receiverAlive, received, fileState,
                   fileContent, metrics_limiter, classifyVars, iniVars>>

\* Line 266 and linter_cli.rs line 39: write_resources returns Ok once its resources
\* are sent, and the resources still without metrics (the tables) are enriched next.
write_resources_return ==
    /\ pc = "enrich" /\ pending = <<>> /\ stage = "elasticache"
    /\ stage' = "ddb"
    /\ pending' = ddb_resources
    /\ UNCHANGED <<pc, failure, acquires, issued, listCalls, metricCalls, ddbServed,
                   ddb_resources, served, elasticache_clusters, inHand, sent, channel,
                   receiverAlive, received, fileState, fileContent, metrics_limiter,
                   classifyVars, iniVars>>

\* The producers are done: the sender is dropped, which closes the channel.
append_metrics_to_resources_return ==
    /\ pc = "enrich" /\ pending = <<>> /\ stage = "ddb"
    /\ pc' = "drain"
    /\ UNCHANGED <<failure, acquires, issued, listCalls, metricCalls, ddbServed, ddb_resources,
                   served, elasticache_clusters, stage, pending, inHand, sent, channel,
                   receiverAlive, received, fileState, fileContent, metrics_limiter,
                   classifyVars, iniVars>>

\* The consumer takes the resource at the head of the channel.
Receive ==
    /\ pc \in {"enrich", "send", "drain"}
    /\ receiverAlive /\ channel # <<>>
    /\ received' = Append(received, Head(channel))
    /\ channel' = Tail(channel)
    /\ UNCHANGED <<pc, failure, acquires, issued, listCalls, metricCalls, ddbServed,
                   ddb_resources, served, elasticache_clusters, stage, pending, inHand,
                   sent, receiverAlive, fileState, fileContent, metrics_limiter, classifyVars, iniVars>>

\* The receiver is dropped while resources are still being produced.
DropReceiver ==
    /\ pc \in {"enrich", "send"}
    /\ receiverAlive
    /\ receiverAlive' = FALSE
    /\ UNCHANGED <<pc, failure, acquires, issued, listCalls, metricCalls, ddbServed,
                   ddb_resources, served, elasticache_clusters, stage, pending, inHand,
                   sent, channel, received, fileState, fileContent, metrics_limiter,
                   classifyVars, iniVars>>

\* The consumer finds the channel closed and empty and hands its list to the writer.
ChannelDrained ==
    /\ pc = "drain"
    /\ channel = <<>> \/ ~receiverAlive
    /\ IF receiverAlive
       THEN pc' = "write" /\ failure' = failure
       ELSE pc' = "error" /\ failure' = "receiver dropped"
    /\ UNCHANGED <<acquires, issued, listCalls, metricCalls, ddbServed, ddb_resources, served,
                   elasticache_clusters, stage, pending, inHand, sent, channel,
                   receiverAlive, received, fileState, fileContent, metrics_limiter,
                   classifyVars, iniVars>>

\* Mutation for C2: the file is created before the data is serialized.
WriteOutcome_CreateFirst(step) ==
    CASE step = "serialize" -> "created"
      [] step = "create" -> "untouched"
      [] step = "write" -> "partial"
      [] OTHER -> "complete"

\* linter_cli.rs lines 52-60: what is on disk when write_data_to_file fails at `step`
\* (or at none): the file exists from File::create on, and holds the whole report
\* only when write_all returned Ok.
WriteOutcome(step) ==
    CASE step = "serialize" -> "untouched"
      [] step = "create" -> "untouched"
      [] step = "write" -> "partial"
      [] OTHER -> "complete"

\* Line 41: the report holds the resources handed to it.
DataFormat(resources) == [resources |-> resources]

\* Lines 41-45 and 48-65: serialize, compress, create the file, write it.
write_data_to_file ==
    /\ pc = "write"
    /\ LET data_format == DataFormat(received) IN
       \/ \E step \in {"serialize", "create", "write"} :
             /\ pc' = "error" /\ failure' = step
             /\ fileState' = WriteOutcome(step)
             /\ UNCHANGED fileContent
       \/ /\ pc' = "done"
          /\ fileState' = WriteOutcome("none")
          /\ fileContent' = data_format.resources
          /\ UNCHANGED failure
    /\ UNCHANGED <<acquires, issued, listCalls, metricCalls, ddbServed, ddb_resources, served,
                   elasticache_clusters, stage, pending, inHand, sent, channel,
                   receiverAlive, received, metrics_limiter, classifyVars, iniVars>>

(***************************************************************************)
(* utils/ini_config.rs: the profile editor.  A line is a sequence of       *)
(* characters; the regular expressions are matched as the regex crate      *)
(* matches them (anchored, greedy; the classes used never overlap with     *)
(* what follows them, so no backtracking arises).                          *)
(***************************************************************************)
Letters == {"a", "c", "d", "e", "h", "k", "l", "n", "o", "t"}
Digits == {"6", "9"}
WordChars == Letters \cup Digits \cup {"_"}     \* \w

\* The first position from i on that holds no character of the class (Len + 1 when
\* there is none): where a greedy class* leaves off.
SkipWhile(line, i, class) ==
    CHOOSE j \in i..(Len(line) + 1) :
        /\ \A k \in i..(j - 1) : line[k] \in class
        /\ j = Len(line) + 1 \/ line[j] \notin class

\* ^key\s*=\s*([class]*)\s*$
MatchesKeyValue(line, key, class) ==
    /\ StartsWith(line, key)
    /\ LET eq == SkipWhile(line, Len(key) + 1, {" "}) IN
       /\ eq <= Len(line) /\ line[eq] = "="
       /\ LET value == SkipWhile(line, eq + 1, {" "})
              after == SkipWhile(line, value, class)
          IN  SkipWhile(line, after, {" "}) = Len(line) + 1

\* Regex::replace(line, replacement): the match (the whole line, the pattern being
\* anchored at both ends) gives way to the replacement; a line that does not match
\* is returned as it is.  The replacements of the model hold no "$".
RegexReplace(line, key, class, replacement) ==
    IF MatchesKeyValue(line, key, class) THEN replacement ELSE line

\* Lines 9-12 and 198-200: ^\s*\[[^\]]+\]\s*$
is_profile_header_line(line) ==
    LET open == SkipWhile(line, 1, {" "}) IN
    /\ open <= Len(line) /\ line[open] = "["
    /\ \E close \in (open + 2)..Len(line) :
          /\ line[close] = "]"
          /\ \A k \in (open + 1)..(close - 1) : line[k] # "]"
          /\ SkipWhile(line, close + 1, {" "}) = Len(line) + 1

TokenKey == <<"t", "o", "k", "e", "n">>
CacheKey == <<"c", "a", "c", "h", "e">>
TtlKey == <<"t", "t", "l">>
TokenClass == WordChars \cup {".", "-"}
CacheClass == WordChars \cup {"-"}
TtlClass == Digits

\* The values written: credentials.token, config.cache and config.ttl.
NewToken == <<"n">>
NewCache == <<"k">>
NewTtl == <<"9">>

ReplaceAt(contents, index, line) == [contents EXCEPT ![index + 1] = line]

\* Lines 71-100: the line at `index` (counted from 0) with the token pattern replaced.
replace_credentials_value(contents, index, token) ==
    ReplaceAt(contents, index,
              RegexReplace(contents[index + 1], TokenKey, TokenClass,
                           TokenKey \o <<"=">> \o token))

\* Lines 102-140: the cache pattern, then the ttl pattern, replaced in the line.
replace_config_value(contents, index, cache, ttl) ==
    LET first == RegexReplace(contents[index + 1], CacheKey, CacheClass,
                              CacheKey \o <<"=">> \o cache)
    IN  ReplaceAt(contents, index,
                  RegexReplace(first, TtlKey, TtlClass, TtlKey \o <<"=">> \o ttl))

ProfileHeader(name) == <<"[">> \o name \o <<"]">>

\* Lines 163-177: the first loop; <<start_line, counter, lines the iterator has
\* yielded>> when it breaks.
RECURSIVE FindStart(_, _, _)
FindStart(contents, expected_profile_line, counter) ==
    IF counter >= Len(contents) THEN <<0, counter, Len(contents)>>
    ELSE IF contents[counter + 1] = expected_profile_line
         THEN <<counter, counter, counter + 1>>
         ELSE FindStart(contents, expected_profile_line, counter + 1)

\* Lines 179-193: the second loop, from the line after the one the first stopped at.
RECURSIVE FindEnd(_, _, _)
FindEnd(contents, counter, yielded) ==
    IF yielded >= Len(contents) THEN Len(contents)
    ELSE IF is_profile_header_line(contents[yielded + 1]) THEN counter + 1
         ELSE FindEnd(contents, counter + 1, yielded + 1)

\* Lines 152-196: (start_line, end_line), counted from 0, end exclusive.
find_line_numbers_for_profile(contents, name) ==
    LET first == FindStart(contents, ProfileHeader(name), 0)
    IN  <<first[1], FindEnd(contents, first[2], first[3])>>

\* Lines 40-46: replace_credentials_value at every n of start..end, in turn.
RECURSIVE UpdateCredentialsFrom(_, _, _, _)
UpdateCredentialsFrom(contents, n, end, token) ==
    IF n >= end THEN contents
    ELSE UpdateCredentialsFrom(replace_credentials_value(contents, n, token),
                               n + 1, end, token)

\* Lines 29-48.
update_credentials_profile(name, contents, token) ==
    LET range == find_line_numbers_for_profile(contents, name)
    IN  UpdateCredentialsFrom(contents, range[1], range[2], token)

\* Lines 61-67.
RECURSIVE UpdateConfigFrom(_, _, _, _, _)
UpdateConfigFrom(contents, n, end, cache, ttl) ==
    IF n >= end THEN contents
    ELSE UpdateConfigFrom(replace_config_value(contents, n, cache, ttl),
                          n + 1, end, cache, ttl)

\* Lines 50-69.
update_config_profile(name, contents, cache, ttl) ==
    LET range == find_line_numbers_for_profile(contents, name)
    IN  UpdateConfigFrom(contents, range[1], range[2], cache, ttl)

\* The files handed to the editor: a credentials file or a config file.
ProfileNames == {<<"d">>, <<"t">>}
CredentialsLines ==
    {ProfileHeader(<<"d">>), ProfileHeader(<<"t">>), <<" ">> \o ProfileHeader(<<"d">>),
     TokenKey \o <<"=">>, TokenKey \o <<"=", "o">>, TokenKey \o <<"=", "o", "+">>,
     TokenKey \o <<" ", "=", " ", "o", " ">>}
ConfigLines ==
    {ProfileHeader(<<"d">>), ProfileHeader(<<"t">>),
     CacheKey \o <<"=", "c">>, TtlKey \o <<"=", "6">>, CacheKey \o <<"=", "c", "+">>}

InitIni ==
    /\ file_contents \in SeqsUpTo(CredentialsLines, MaxFileLen)
                            \cup SeqsUpTo(ConfigLines, MaxFileLen)
    /\ profile_name \in ProfileNames
    /\ updated = None
    /\ op = ""

UpdateCredentials ==
    /\ updated = None
    /\ updated' = Some(update_credentials_profile(profile_name, file_contents, NewToken))
    /\ op' = "credentials"
    /\ UNCHANGED <<file_contents, profile_name, classifyVars, runVars>>

UpdateConfig ==
    /\ updated = None
    /\ updated' = Some(update_config_profile(profile_name, file_contents, NewCache, NewTtl))
    /\ op' = "config"
    /\ UNCHANGED <<file_contents, profile_name, classifyVars, runVars>>

IdleRun == InitRun /\ metrics_limiter = limiter

IdleIni ==
    /\ file_contents = <<>>
    /\ profile_name = <<>>
    /\ updated = None
    /\ op = ""

(***************************************************************************)
(* The specifications.                                                     *)
(***************************************************************************)
Init == InitRun /\ IdleClassify /\ IdleIni

Next ==
    \/ check_output_is_writable
    \/ get_ddb_resources
    \/ describe_clusters
    \/ write_resources_collect
    \/ append_metrics
    \/ send
    \/ write_resources_return
    \/ append_metrics_to_resources_return
    \/ Receive
    \/ DropReceiver
    \/ ChannelDrained
    \/ write_data_to_file

Spec == Init /\ [][Next]_vars

InitC == InitClassify /\ IdleRun /\ IdleIni
NextC == Classify \/ CreateTargets
SpecClassify == InitC /\ [][NextC]_vars

InitI == InitIni /\ IdleRun /\ IdleClassify
NextI == UpdateCredentials \/ UpdateConfig
SpecIni == InitI /\ [][NextI]_vars

(***************************************************************************)
(* Claims about the run (checked under Spec).                              *)
(***************************************************************************)
PageItems(page) == IF IsSome(page.cache_clusters) THEN Unwrap(page.cache_clusters) ELSE <<>>
IsPrefix(p, q) == Len(p) <= Len(q) /\ SubSeq(q, 1, Len(p)) = p

\* C1: whatever pages the listing has served without error, describe_clusters'
\* accumulator is the concatenation of their items in page order and within-page
\* order (a page without a list adds nothing); no page is fetched after a page that
\* came without a marker, and describe_clusters returns only after such a page.
C1_PaginationComplete ==
    /\ elasticache_clusters = Flatten([i \in 1..Len(served) |-> PageItems(served[i])])
    /\ \A i \in 1..(Len(served) - 1) : served[i].marker
    /\ pc = "collect" => served # <<>> /\ ~Last(served).marker

C1_Witness ==
    /\ pc = "collect"
    /\ Len(served) = 2
    /\ Len(PageItems(served[1])) = 2
    /\ Len(PageItems(served[2])) = 1

\* C2 (as amended): a failed run takes no further step, and the output file is
\* touched only once every step before write_data_to_file succeeded: after a
\* failure the file is untouched unless write_all itself failed, and the file is
\* complete exactly when the run succeeded.
C2_FailureAborts ==
    /\ [](/\ pc = "error" /\ failure # "write" => fileState = "untouched"
          /\ pc \notin {"error", "done"} => fileState = "untouched"
          /\ fileState = "complete" <=> pc = "done"
          /\ pc = "error" <=> failure # "")
    /\ [][pc # "error"]_vars

C2_Witness == pc = "error" /\ failure = "write" /\ fileState = "partial" /\ sent # <<>>

\* C2 (as stated): a failed run never leaves partial output.
C2_NoPartialOutput == pc = "error" => fileState = "untouched"

HasUnsupportedEngine(clusters) ==
    \E i \in 1..Len(clusters) :
        /\ IsSome(clusters[i].engine)
        /\ Unwrap(clusters[i].engine) \notin {"redis", "memcached"}

\* C3: once describe_clusters has returned a list holding a cluster of an
\* unsupported engine, at whatever position, the run ends in error at the first loop
\* of write_resources: no ElastiCache resource is enriched, sent, received or written.
C3_UnsupportedEngineFatal ==
    HasUnsupportedEngine(elasticache_clusters)
        /\ pc \notin {"check", "ddb", "describe", "collect"}
    => /\ pc = "error"
       /\ metricCalls = 0 /\ inHand = None /\ pending = <<>>
       /\ sent = <<>> /\ channel = <<>> /\ received = <<>>
       /\ fileState = "untouched"

C3_Witness ==
    /\ pc = "error" /\ failure = "Unsupported engine"
    /\ Len(elasticache_clusters) = 3
    /\ elasticache_clusters[1] = RedisCluster
    /\ elasticache_clusters[2] = MemcachedCluster

\* C8: no rate-limiter acquire, listing call or metrics call is made while the
\* writability check has not succeeded, and a run whose check failed has ended in
\* error without any.
C8_CheckBeforeDiscovery ==
    /\ pc = "check" \/ failure = "check_output_is_writable"
           => /\ \A l \in LimiterInstances : acquires[l] = 0
              /\ listCalls = 0 /\ metricCalls = 0
    /\ failure = "check_output_is_writable" => pc = "error"

C8_Witness == pc = "error" /\ failure = "check_output_is_writable"

\* C9: resources are sent in the order discovery produced them (cluster order, node
\* order within a memcached cluster), the consumer holds a prefix of what was sent,
\* and the report of a successful run holds exactly the sent resources, each once,
\* in that order.
Discovered ==
    LET resources == CollectResources(elasticache_clusters, Region) IN
    (IF resources.ok THEN resources.val ELSE <<>>)
        \o (IF stage = "ddb" THEN ddb_resources ELSE <<>>)

TotalIssued == issued[limiter] + issued["metrics_limiter"]

ListingComplete(pages) == pages # <<>> /\ ~Last(pages).marker
DdbListCalls == Len(ddbServed) + (IF failure = "get_ddb_resources" THEN 1 ELSE 0)
ElastiCacheListCalls == listCalls - DdbListCalls

\* C12: the families are discovered one after the other and before any enrichment:
\* an ElastiCache listing call has been issued only if the table listing is
\* complete, a metrics query has been issued only if the listings of both families
\* are complete, and no listing call is issued once a metrics query has been.
C12_DiscoveryBeforeEnrichment ==
    /\ [](/\ ElastiCacheListCalls > 0 => ListingComplete(ddbServed)
          /\ metricCalls > 0 => ListingComplete(ddbServed) /\ ListingComplete(served))
    /\ [][metricCalls > 0 => listCalls' = listCalls]_vars

C12_Witness ==
    /\ pc = "done"
    /\ Len(ddbServed) = 2 /\ Len(served) = 2
    /\ ElastiCacheListCalls = 2
    /\ metricCalls = 12

Unenriched(r) == r.metrics = <<>> /\ r.metric_period_seconds = 0
Populated(r) == r.metrics # <<>> /\ r.metric_period_seconds # 0
AsDiscovered(r) == [r EXCEPT !.metrics = <<>>, !.metric_period_seconds = 0]

\* C13: a resource keeps empty metrics and period 0 from discovery until its one
\* enrichment (one query per statistic group of its target, no more); the resource
\* in hand for the send is the next resource, populated; every resource sent is
\* populated, and what the channel and the consumer hold is what was sent, unchanged;
\* a resource whose enrichment failed stays as discovered and is not among the sent.
C13_EnrichedOnceBeforeSent ==
    /\ [](/\ \A i \in 1..Len(pending) : Unenriched(pending[i])
          /\ stage = "elasticache" =>
                 \A i \in 1..Len(ddb_resources) : Unenriched(ddb_resources[i])
          /\ IsSome(inHand) => /\ Populated(Unwrap(inHand))
                               /\ AsDiscovered(Unwrap(inHand)) = Head(pending)
          /\ \A i \in 1..Len(sent) : Populated(sent[i])
          /\ received \o channel = sent
          /\ pc = "done" => fileContent = sent
          /\ failure # "append_metrics" =>
                 metricCalls = Len(StatisticGroups) * (Len(sent) + Len(inHand))
          /\ failure = "append_metrics" =>
                 /\ inHand = None /\ pending # <<>>
                 /\ \A i \in 1..Len(sent) : AsDiscovered(sent[i]) # Head(pending)
                 /\ metricCalls > Len(StatisticGroups) * Len(sent)
                 /\ metricCalls <= Len(StatisticGroups) * (Len(sent) + 1))
    /\ [][IsPrefix(sent, sent')]_vars

C13_Witness ==
    /\ pc = "error" /\ failure = "append_metrics"
    /\ Len(sent) = 3 /\ Len(received) = 2
    /\ stage = "ddb"

(***************************************************************************)
(* Claims about the classification (checked under SpecClassify).           *)
(***************************************************************************)
IsRedis == IsSome(built) /\ Unwrap(built).ok /\ cluster.engine = Some("redis")
OwnId == Unwrap(cluster.cache_cluster_id)
Prefix == Unwrap(cluster.replication_group_id) \o <<Dash>>
RedisResource == Unwrap(built).val[1]

\* C4 (as stated): clusterModeEnabled of a redis cluster with a replication group is
\* true exactly when its id, with the prefix stripped once, has two segments; without
\* a replication group it is false.
C4_ClusterModeStrippedOnce ==
    IsRedis =>
        RedisResource.metadata.cluster_mode_enabled =
            IF IsSome(cluster.replication_group_id)
            THEN split_count(StripPrefixOnce(OwnId, Prefix), Dash) = 2
            ELSE FALSE

\* C5 (as amended): the metadata clusterId of a redis resource is the replication
\* group id when the cluster has one, and the cluster's own id otherwise.
C5_ClusterIdIsReplicationGroup ==
    IsRedis =>
        /\ Len(Unwrap(built).val) = 1
        /\ RedisResource.metadata.cluster_id =
               IF IsSome(cluster.replication_group_id)
               THEN Unwrap(cluster.replication_group_id)
               ELSE OwnId

C5_Witness ==
    /\ IsRedis
    /\ IsSome(cluster.replication_group_id)
    /\ StartsWith(OwnId, Prefix)
    /\ Len(OwnId) > Len(Prefix)

\* C5 (as stated): the metadata clusterId is the own id with the prefix stripped.
C5_ClusterIdStripped ==
    IsRedis =>
        RedisResource.metadata.cluster_id =
            IF IsSome(cluster.replication_group_id)
            THEN StripPrefixOnce(OwnId, Prefix)
            ELSE OwnId

HasTargets == IsSome(targets) /\ IsRedis

IsMemcachedWithIds ==
    /\ IsSome(built)
    /\ cluster.engine = Some("memcached")
    /\ IsSome(cluster.cache_cluster_id) /\ IsSome(cluster.cache_node_type)
    /\ IsSome(cluster.preferred_availability_zone)
    /\ IsSome(cluster.cache_nodes)
    /\ \A i \in 1..Len(Unwrap(cluster.cache_nodes)) :
           IsSome(Unwrap(cluster.cache_nodes)[i].cache_node_id)

\* C7: a memcached cluster whose n nodes all have ids gives n resources, the i-th
\* with the i-th node's id, all with the same metadata: the cluster's own id as
\* clusterId (nothing stripped) and clusterModeEnabled false.
C7_MemcachedFanOut ==
    IsMemcachedWithIds =>
        LET nodes == Unwrap(cluster.cache_nodes)
            res == Unwrap(built)
        IN  /\ res.ok
            /\ Len(res.val) = Len(nodes)
            /\ \A i \in 1..Len(nodes) :
                  /\ res.val[i].id = Unwrap(nodes[i].cache_node_id)
                  /\ res.val[i].resource_type = "ElastiCacheMemcachedNode"
                  /\ res.val[i].metadata =
                         [cluster_id |-> OwnId, engine |-> "memcached",
                          cache_node_type |-> Unwrap(cluster.cache_node_type),
                          preferred_az |-> Unwrap(cluster.preferred_availability_zone),
                          cluster_mode_enabled |-> FALSE]

C7_Witness ==
    /\ IsMemcachedWithIds
    /\ Len(Unwrap(cluster.cache_nodes)) = 3
    /\ Unwrap(cluster.cache_nodes)[1] # Unwrap(cluster.cache_nodes)[2]
    /\ cluster.replication_group_id = Some(<<"a">>)
    /\ OwnId = <<"a", "-", "a">>

(***************************************************************************)
(* Claims about the profile editor (checked under SpecIni).                *)
(***************************************************************************)
Min(S) == CHOOSE x \in S : \A y \in S : x <= y
HeaderLines == {i \in 1..Len(file_contents) : is_profile_header_line(file_contents[i])}
ProfileLines ==
    {i \in 1..Len(file_contents) : file_contents[i] = ProfileHeader(profile_name)}

\* The section of the profile: from its header line up to, and without, the next
\* header line (lines counted from 1).
SectionStart == Min(ProfileLines)
SectionEnd == Min({j \in HeaderLines : j > SectionStart} \cup {Len(file_contents) + 1})
InSection(i) == SectionStart <= i /\ i < SectionEnd

\* A line that sets `key`: the key, then "=" after optional blanks.
SetsKey(line, key) ==
    /\ StartsWith(line, key)
    /\ LET eq == SkipWhile(line, Len(key) + 1, {" "}) IN eq <= Len(line) /\ line[eq] = "="

\* C10 (as stated): for a file holding the header line of the profile among several
\* sections, the update returns as many lines as it was given, every token line
\* (cache line, ttl line) of the profile's section set to the new value, and every
\* line outside the section as it was.
C10_UpdateInSectionOnly ==
    IsSome(updated) /\ ProfileLines # {} /\ Cardinality(HeaderLines) >= 2 =>
        LET new == Unwrap(updated) IN
        /\ Len(new) = Len(file_contents)
        /\ \A i \in 1..Len(file_contents) :
              /\ ~InSection(i) => new[i] = file_contents[i]
              /\ InSection(i) /\ op = "credentials" /\ SetsKey(file_contents[i], TokenKey)
                    => new[i] = TokenKey \o <<"=">> \o NewToken
              /\ InSection(i) /\ op = "config" /\ SetsKey(file_contents[i], CacheKey)
                    => new[i] = CacheKey \o <<"=">> \o NewCache
              /\ InSection(i) /\ op = "config" /\ SetsKey(file_contents[i], TtlKey)
                    => new[i] = TtlKey \o <<"=">> \o NewTtl

ProfileAbsent == \A i \in 1..Len(file_contents) : file_contents[i] # ProfileHeader(profile_name)

\* C14 (as stated): an update for a profile whose header line does not occur in the
\* file returns the file contents unchanged.
C14_AbsentProfileUnchanged ==
    IsSome(updated) /\ ProfileAbsent => Unwrap(updated) = file_contents

====
